---- MODULE Spec2Model ----
(***************************************************************************)
(* A model of go-cli-analytics (package analytics): the disk-buffered      *)
(* tracker of src/unnamed/part_000.  The state is the state directory      *)
(* (id, events, last_flush, disable), the clock, one tracker value (the    *)
(* Analytics struct of the running process), the position of a Flush in    *)
(* progress, the Segment client of that Flush and the result of the last   *)
(* call.  New, Flush and ConditionalFlush choose, by \E, which one          *)
(* of the file-system or network calls they make fails, if any; a call     *)
(* also fails when the file or directory it needs is absent.  Events,      *)
(* Size, LastFlush, LastFlushDuration and Enabled only read the directory  *)
(* and the clock: they are operators on the state.  SpecRace adds a second *)
(* process that opens and appends to the same events file, with no lock.   *)
(***************************************************************************)
EXTENDS Integers, Sequences, FiniteSets, TLC

\* Bounds of the model.
MaxEvents == 2      \* lines in the events file, and Track calls per tracker
MaxTime == 1        \* the clock runs 0..MaxTime
MaxUUIDs == 2       \* identifiers uuid.GenerateUUID hands out
MaxPeerEvents == 2  \* Track calls of the second process

VARIABLES
  homeErr,     \* homedir.Dir() fails in this environment
  fs,          \* the state directory filepath.Join(a.root, ...)
  now,         \* time.Now()
  uuids,       \* identifiers generated so far
  a,           \* the Analytics struct (optedOut: what Enabled said in init)
  pc,          \* position of the Flush in progress, "idle" when none
  batch,       \* Flush's local `events`
  client,      \* the Segment client of the Flush in progress
  ret,         \* the last call and what it returned
  tracked,     \* history: the Track calls of a tracker built on an empty log:
               \* the inputs of those that returned nil, and the errors of the others
  lastFailed,  \* history, kept when on: the batch of the last Flush whose
               \* client.Close failed
  logged,      \* history: the inputs of the Track calls that wrote a line, since
               \* the last Flush that removed the events file
  peer         \* a second process on the same directory: its events file handle,
               \* and history: the events it tracked, those submitted, those lost

vars == <<homeErr, fs, now, uuids, a, pc, batch, client, ret, tracked, lastFailed,
          logged, peer>>

----------------------------------------------------------------------------
\* Go values and their JSON encoding (encoding/json).

\* A Go string is a sequence of bytes, 0 .. 255: <<97>> is "a".  The byte 255
\* is part of no UTF-8 encoding.

\* U+FFFD, the Unicode replacement character, in UTF-8.
ReplacementChar == <<239, 191, 189>>

\* A Go integer or float64 is [big, off], the value big * 2^53 + off with off
\* in 0 .. 2^53 - 1: a number below 2^53 when big is FALSE, one in
\* 2^53 .. 2^54 - 1 when it is TRUE.
Num(big, off) == [big |-> big, off |-> off]

\* A map[string]interface{}: nil, or a set of entries key, dynamic type, value,
\* no two with the same key.  The dynamic types are int, float64, string, bool,
\* map and slice (the empty map and the empty slice), and chan for the kinds
\* json cannot encode.
NilProps == [nil |-> TRUE, kv |-> {}]

\* A map with numbers, as in Track("b", {"x": 1}), and a string, as in the map
\* _example/main.go passes: {"x\xff": 2^53 + 1, "x\ufffd": 1, "w": "e\xff"}.
\* Two of the keys and the string are not valid UTF-8 or become equal once
\* they are.
MixedProps ==
  [nil |-> FALSE,
   kv |-> {[k |-> <<120, 255>>, t |-> "int", v |-> Num(TRUE, 1)],
           [k |-> <<120>> \o ReplacementChar, t |-> "int", v |-> Num(FALSE, 1)],
           [k |-> <<119>>, t |-> "string", v |-> <<101, 255>>]}]

\* A map json cannot encode: {"f": make(chan int)}.
ChanProps == [nil |-> FALSE, kv |-> {[k |-> <<102>>, t |-> "chan", v |-> 0]}]

\* The (name, props) pairs Track is called with: the calls of _example/main.go,
\* Track("Something", nil) and Track with a map, and a call with a map json
\* cannot encode; the names are "a", "b\xff", which is not valid UTF-8, and
\* "c".
TrackInputs ==
  { [name |-> <<97>>, props |-> NilProps],
    [name |-> <<98, 255>>, props |-> MixedProps],
    [name |-> <<99>>, props |-> ChanProps] }

\* The JSON kind json.Marshal writes for a value of each Go type it encodes.
JSONKind(t) ==
  CASE t \in {"int", "float64"} -> "number"
    [] t = "string" -> "string"
    [] t = "bool" -> "bool"
    [] t = "map" -> "object"
    [] t = "slice" -> "array"

\* The Go type json.Unmarshal gives a value of each JSON kind in an interface{}.
DecodedType(j) ==
  CASE j = "number" -> "float64"
    [] j = "string" -> "string"
    [] j = "bool" -> "bool"
    [] j = "object" -> "map"
    [] j = "array" -> "slice"

\* json.Marshal encodes numbers, strings, booleans, maps and slices, and fails
\* on the other kinds (UnsupportedTypeError).
Encodable(props) ==
  \A e \in props.kv : e.t \in {"int", "float64", "string", "bool", "map", "slice"}

\* A continuation byte of UTF-8 at position i.
IsCont(str, i) == i <= Len(str) /\ str[i] >= 128 /\ str[i] <= 191

\* utf8.DecodeRuneInString at position i: the length of the encoding that
\* starts there, 0 when the bytes there are no valid encoding (RuneError with
\* size 1).  Overlong forms (lead bytes 192 and 193, 224 before 160, 240 before
\* 144), surrogates (237 from 160) and values over U+10FFFF (244 from 144,
\* lead bytes over 244) are invalid.
RuneLen(str, i) ==
  LET b == str[i] IN
  IF b < 128 THEN 1
  ELSE IF b < 194 \/ b > 244 \/ ~IsCont(str, i + 1) THEN 0
  ELSE IF b < 224 THEN 2
  ELSE IF \/ b = 224 /\ str[i + 1] < 160
          \/ b = 237 /\ str[i + 1] > 159
          \/ b = 240 /\ str[i + 1] < 144
          \/ b = 244 /\ str[i + 1] > 143
          \/ ~IsCont(str, i + 2) THEN 0
  ELSE IF b < 240 THEN 3
  ELSE IF IsCont(str, i + 3) THEN 4
  ELSE 0

RECURSIVE ToValidUTF8From(_, _)
ToValidUTF8From(str, i) ==
  IF i > Len(str) THEN <<>>
  ELSE LET n == RuneLen(str, i) IN
       IF n = 0 THEN ReplacementChar \o ToValidUTF8From(str, i + 1)
       ELSE SubSeq(str, i, i + n - 1) \o ToValidUTF8From(str, i + n)

\* A string as the encoder writes it and the decoder reads it: each byte that
\* is not part of a valid UTF-8 encoding replaced by U+FFFD.  (The escapes the
\* encoder writes, that of U+FFFD among them, are undone by the decoder: a line of the
\* model holds the string the JSON text denotes.)
ToValidUTF8(str) == ToValidUTF8From(str, 1)

\* s < t for Go strings: the order of their bytes.
BytesLess(s, t) ==
  \/ Len(s) < Len(t) /\ \A j \in 1..Len(s) : s[j] = t[j]
  \/ \E i \in 1..Len(s) :
       /\ i <= Len(t)
       /\ s[i] < t[i]
       /\ \A j \in 1..(i - 1) : s[j] = t[j]

\* The entries of a map in the order the encoder writes them: sorted by key,
\* the key as it is in the map.
RECURSIVE SortedByKey(_)
SortedByKey(kv) ==
  IF kv = {} THEN <<>>
  ELSE LET m == CHOOSE x \in kv : \A y \in kv \ {x} : BytesLess(x.k, y.k)
       IN <<m>> \o SortedByKey(kv \ {m})

\* The float64 nearest to a number, ties to the even mantissa: every integer
\* below 2^53 is a float64, and from 2^53 to 2^54 only the even ones are.
ToFloat64(n) ==
  IF ~n.big \/ n.off % 2 = 0 THEN n
  ELSE IF (n.off - 1) % 4 = 0 THEN Num(TRUE, n.off - 1)
  ELSE Num(TRUE, n.off + 1)

\* The value json.Marshal writes: a number in full (an int with all its
\* digits), a string as valid UTF-8.
EncodeValue(t, v) == IF t = "string" THEN ToValidUTF8(v) ELSE v

\* The value json.Unmarshal stores in an interface{}: a number as the nearest
\* float64.
DecodeValue(j, v) == IF j = "number" THEN ToFloat64(v) ELSE v

\* One line of the events file: {"event": ..., "properties": ...}.  A nil map
\* is written as null, otherwise its members in the order of their keys, each
\* value as its JSON kind; the name and the keys are written as strings are.
EncodeEvent(e) ==
  LET m == SortedByKey(e.Properties.kv) IN
  [event |-> ToValidUTF8(e.Event),
   properties |-> [null |-> e.Properties.nil,
                   kv |-> [i \in DOMAIN m |->
                             [k |-> ToValidUTF8(m[i].k), j |-> JSONKind(m[i].t),
                              v |-> EncodeValue(m[i].t, m[i].v)]]]]

\* Decoding a line the encoder wrote into Event: null leaves Properties nil;
\* each member is stored in the map under its name in turn, so of the members
\* with one name the last remains; a JSON number decoded into interface{} is
\* a float64, a string a string, a boolean a bool.  The strings of such a line
\* are valid UTF-8, and the decoder hands a valid string back as it is.
DecodeEvent(l) ==
  LET m == l.properties.kv IN
  [Event |-> l.event,
   Properties |-> [nil |-> l.properties.null,
                   kv |-> {[k |-> m[i].k, t |-> DecodedType(m[i].j),
                            v |-> DecodeValue(m[i].j, m[i].v)] :
                             i \in {n \in DOMAIN m :
                                      \A o \in (n + 1)..Len(m) : m[o].k # m[n].k}}]]

----------------------------------------------------------------------------
\* The state directory.

NoID == [exists |-> FALSE, content |-> 0]
NoEvents == [exists |-> FALSE, lines |-> <<>>]
NoMarker == [exists |-> FALSE, mtime |-> 0]

\* filepath.Join(home, a.Dir), or "" when the home directory was not found.
initRoot(herr) == IF herr THEN "" ELSE "~/dir"

\* os.Mkdir(a.root): the error is dropped.  Mkdir("") always fails.
initDir(f, root, ok) ==
  IF root # "" /\ ~f.dir /\ ok THEN [f EXCEPT !.dir = TRUE] ELSE f

\* ioutil.WriteFile(last_flush, ":)"): the modification time becomes now.
TouchOK(f, ok) == f.dir /\ ok

\* Mutant: the marker is written with a fixed time instead of the current one.
TouchEpoch(f, t, ok) ==
  IF TouchOK(f, ok) THEN [f EXCEPT !.last_flush = [exists |-> TRUE, mtime |-> 0]] ELSE f

Touch(f, t, ok) ==
  IF TouchOK(f, ok) THEN [f EXCEPT !.last_flush = [exists |-> TRUE, mtime |-> t]] ELSE f

\* Enabled: true iff stat(disable) says "not exist"; any other error is returned.
Enabled(f, statOK) ==
  IF ~statOK THEN [enabled |-> FALSE, err |-> "stat"]
  ELSE IF f.disable THEN [enabled |-> FALSE, err |-> "nil"]
  ELSE [enabled |-> TRUE, err |-> "nil"]

\* initID: the id file's contents if it can be read, otherwise a fresh UUID,
\* written to the id file and followed by Touch.
initID(f, t, fresh, readOK, uuidOK, writeOK, touchOK) ==
  IF f.id.exists /\ readOK THEN [fs |-> f, userID |-> f.id.content, gen |-> FALSE]
  ELSE IF ~uuidOK THEN [fs |-> f, userID |-> 0, gen |-> FALSE]
  ELSE IF ~(f.dir /\ writeOK) THEN [fs |-> f, userID |-> fresh, gen |-> TRUE]
  ELSE [fs |-> Touch([f EXCEPT !.id = [exists |-> TRUE, content |-> fresh]], t, touchOK),
        userID |-> fresh, gen |-> TRUE]

\* Mutant: O_TRUNC in place of O_APPEND.
OpenTruncate(ev) == [exists |-> TRUE, lines |-> <<>>]

\* os.OpenFile(events, O_APPEND|O_CREATE|O_RDWR): an existing file keeps its lines.
OpenAppend(ev) == IF ev.exists THEN ev ELSE [exists |-> TRUE, lines |-> <<>>]

initEvents(f, ok) ==
  IF f.dir /\ ok
    THEN [fs |-> [f EXCEPT !.events = OpenAppend(f.events)], eventsFile |-> "open"]
    ELSE [fs |-> f, eventsFile |-> "nil"]

\* Events: the decoded lines of the events file, or the error of os.Open.
Events(f, openOK) ==
  IF f.events.exists /\ openOK
    THEN [err |-> "nil", v |-> [i \in DOMAIN f.events.lines |-> DecodeEvent(f.events.lines[i])]]
    ELSE [err |-> "opening", v |-> <<>>]

\* Size: len(Events()).
Size(f, openOK) ==
  LET r == Events(f, openOK) IN
  IF r.err # "nil" THEN [err |-> "reading events", n |-> 0]
  ELSE [err |-> "nil", n |-> Len(r.v)]

\* LastFlush: the marker's modification time, or time.Unix(0, 0) and the error.
LastFlush(f, statOK) ==
  IF f.last_flush.exists /\ statOK THEN [err |-> "nil", t |-> f.last_flush.mtime]
  ELSE [err |-> "stat", t |-> 0]

\* LastFlushDuration: now - LastFlush(), and 0 with a nil error when LastFlush fails.
LastFlushDuration(f, t, statOK) ==
  LET r == LastFlush(f, statOK) IN
  IF r.err # "nil" THEN [err |-> "nil", d |-> 0] ELSE [err |-> "nil", d |-> t - r.t]

----------------------------------------------------------------------------
\* Results of calls.

NoCF == [size |-> 0, age |-> 0, aged |-> FALSE, aboveSize |-> 0, aboveDuration |-> 0,
         dec |-> "none"]

R(op, err) == [op |-> op, err |-> err, n |-> 0, evs |-> <<>>, steps |-> <<>>,
               touched |-> -1, before |-> -1, cf |-> NoCF]

NoClient == [state |-> "none", msgs |-> <<>>]

NoTracker == [alive |-> FALSE, root |-> "", userID |-> 0, eventsFile |-> "nil",
              encErr |-> "nil", optedOut |-> FALSE]

NoTracked == [valid |-> FALSE, failed |-> {}, seq |-> <<>>]

NoFailed == [on |-> FALSE, set |-> FALSE, evs |-> <<>>]

\* No second process: no handle, and nothing tracked, submitted or lost.
NoPeer == [eventsFile |-> "nil", n |-> 0, sent |-> {}, lost |-> {}]

InitEnv(herr, keep) ==
  /\ homeErr = herr
  /\ fs = [dir |-> homeErr, id |-> NoID, events |-> NoEvents,
           last_flush |-> NoMarker, disable |-> FALSE]
  /\ now = 0
  /\ uuids = 0
  /\ a = NoTracker
  /\ pc = "idle"
  /\ batch = <<>>
  /\ client = NoClient
  /\ ret = R("none", "nil")
  /\ tracked = NoTracked
  /\ lastFailed = [NoFailed EXCEPT !.on = keep]
  /\ logged = <<>>
  /\ peer = NoPeer

\* The clock advances between any two steps.
Tick ==
  /\ now < MaxTime
  /\ now' = now + 1
  /\ UNCHANGED <<logged, peer, homeErr, fs, uuids, a, pc, batch, client, ret, tracked, lastFailed>>

\* Mutant: init() goes on when Enabled says no.
GateErrorOnly(en) == en.err # "nil"

\* init() stops after initRoot when Enabled fails or says no.
Gate(en) == en.err # "nil" \/ ~en.enabled

\* The call of init() that fails, if any.
InitFaults == {"none", "stat", "mkdir", "read", "uuid", "write", "touch", "open"}

\* A call can be made to fail where init() makes it and it would not fail by
\* itself: after the gate only without the opt-out marker, Mkdir and the
\* calls that write only with a home directory, Mkdir only when the directory
\* is not there, ReadFile only on an id file that is there, and the calls
\* that generate and save an identifier only when it is not.
InitFaultApplies(fault, f, herr) ==
  CASE fault \in {"none", "stat"} -> TRUE
    [] fault = "mkdir" -> ~f.disable /\ ~herr /\ ~f.dir
    [] fault = "read" -> ~f.disable /\ f.id.exists
    [] fault = "uuid" -> ~f.disable /\ ~f.id.exists
    [] fault \in {"write", "touch"} -> ~f.disable /\ ~f.id.exists /\ (f.dir \/ ~herr)
    [] fault = "open" -> ~f.disable /\ (f.dir \/ ~herr)

\* New: a process starts (whatever the previous one was doing) and builds its
\* tracker: init() = initRoot, Enabled, initDir, initID, initEvents.
New ==
  \E fault \in InitFaults :
    LET root == initRoot(homeErr)
        en == Enabled(fs, fault # "stat")
        f1 == initDir(fs, root, fault # "mkdir")
        id == initID(f1, now, uuids + 1, fault # "read", fault # "uuid",
                     fault # "write", fault # "touch")
        ev == initEvents(id.fs, fault # "open")
    IN
    /\ InitFaultApplies(fault, fs, homeErr)
    /\ IF Gate(en)
         THEN /\ a' = [alive |-> TRUE, root |-> root, userID |-> 0,
                       eventsFile |-> "nil", encErr |-> "nil", optedOut |-> ~en.enabled]
              /\ tracked' = NoTracked
              /\ UNCHANGED <<fs, uuids>>
         ELSE /\ id.gen => uuids < MaxUUIDs
              /\ a' = [alive |-> TRUE, root |-> root, userID |-> id.userID,
                       eventsFile |-> ev.eventsFile, encErr |-> "nil",
                       optedOut |-> ~en.enabled]
              /\ fs' = ev.fs
              /\ uuids' = IF id.gen THEN uuids + 1 ELSE uuids
              /\ tracked' = [valid |-> ev.eventsFile = "open" /\ ev.fs.events.lines = <<>>,
                             failed |-> {}, seq |-> <<>>]
    /\ pc' = "idle"
    /\ batch' = <<>>
    /\ client' = NoClient
    /\ ret' = R("New", "nil")
    /\ UNCHANGED <<logged, peer, homeErr, now, lastFailed>>

----------------------------------------------------------------------------
\* The calls of a constructed tracker.  The package is single-threaded: no
\* call starts while a Flush is in progress.

Ready == a.alive /\ pc = "idle"

\* Mutant: the line is written at the start of the file.
PrependLine(lines, l) == <<l>> \o lines

\* json.Encoder.Encode writes one line at the end of the file (O_APPEND).
AppendLine(lines, l) == Append(lines, l)

\* Mutant: Track looks at the opt-out marker on every call.
TrackChecksMarker(tr, f, in) ==
  IF tr.eventsFile = "nil" \/ f.disable
    THEN [a |-> tr, fs |-> f, err |-> "nil", wrote |-> FALSE]
  ELSE IF tr.encErr # "nil"
    THEN [a |-> tr, fs |-> f, err |-> tr.encErr, wrote |-> FALSE]
  ELSE IF ~Encodable(in.props)
    THEN [a |-> tr, fs |-> f, err |-> "unsupported type", wrote |-> FALSE]
  ELSE IF tr.eventsFile = "closed"
    THEN [a |-> [tr EXCEPT !.encErr = "file already closed"], fs |-> f,
          err |-> "file already closed", wrote |-> FALSE]
  ELSE [a |-> tr,
        fs |-> [f EXCEPT !.events.lines =
                   AppendLine(@, EncodeEvent([Event |-> in.name, Properties |-> in.props]))],
        err |-> "nil", wrote |-> TRUE]

\* Track: nil when a.events is nil; otherwise Encode's result: the error the
\* encoder kept from an earlier write (encErr), the marshalling error, the
\* error of writing to a closed file, which the encoder keeps, or nil with the
\* line appended.
Track(tr, f, in) ==
  IF tr.eventsFile = "nil"
    THEN [a |-> tr, fs |-> f, err |-> "nil", wrote |-> FALSE]
  ELSE IF tr.encErr # "nil"
    THEN [a |-> tr, fs |-> f, err |-> tr.encErr, wrote |-> FALSE]
  ELSE IF ~Encodable(in.props)
    THEN [a |-> tr, fs |-> f, err |-> "unsupported type", wrote |-> FALSE]
  ELSE IF tr.eventsFile = "closed"
    THEN [a |-> [tr EXCEPT !.encErr = "file already closed"], fs |-> f,
          err |-> "file already closed", wrote |-> FALSE]
  ELSE [a |-> tr,
        fs |-> [f EXCEPT !.events.lines =
                   AppendLine(@, EncodeEvent([Event |-> in.name, Properties |-> in.props]))],
        err |-> "nil", wrote |-> TRUE]

CallTrack ==
  \E in \in TrackInputs :
    LET r == Track(a, fs, in) IN
    /\ Ready
    /\ r.wrote => Len(fs.events.lines) < MaxEvents
    /\ fs' = r.fs
    /\ a' = r.a
    /\ ret' = R("Track", r.err)
    /\ tracked' = IF ~tracked.valid THEN tracked
                  ELSE IF r.wrote THEN [tracked EXCEPT !.seq = Append(@, in)]
                  ELSE [tracked EXCEPT !.failed = @ \cup {r.err}]
    /\ logged' = IF r.wrote THEN Append(logged, in) ELSE logged
    /\ UNCHANGED <<peer, homeErr, now, uuids, pc, batch, client, lastFailed>>

\* Mutant: Close reads a field of the file without the nil check.
ClosePanicsOnNil(tr) ==
  IF tr.eventsFile = "open" THEN [a |-> [tr EXCEPT !.eventsFile = "closed"], err |-> "nil"]
  ELSE IF tr.eventsFile = "nil" THEN [a |-> tr, err |-> "panic"]
  ELSE [a |-> tr, err |-> "file already closed"]

\* Close: (*os.File).Close.  A nil file gives ErrInvalid, a closed one
\* ErrClosed, and an open one is closed.
Close(tr) ==
  IF tr.eventsFile = "open" THEN [a |-> [tr EXCEPT !.eventsFile = "closed"], err |-> "nil"]
  ELSE IF tr.eventsFile = "nil" THEN [a |-> tr, err |-> "invalid argument"]
  ELSE [a |-> tr, err |-> "file already closed"]

CallClose ==
  LET c == Close(a) IN
  /\ Ready
  /\ a' = c.a
  /\ ret' = R("Close", c.err)
  /\ UNCHANGED <<logged, peer, homeErr, fs, now, uuids, pc, batch, client, tracked, lastFailed>>

CallTouch ==
  /\ Ready
  /\ fs' = Touch(fs, now, TRUE)
  /\ ret' = R("Touch", IF TouchOK(fs, TRUE) THEN "nil" ELSE "write")
  /\ UNCHANGED <<logged, peer, homeErr, now, uuids, a, pc, batch, client, tracked, lastFailed>>

\* Disable: os.Create(disable).
Disable(f, ok) ==
  IF f.dir /\ ok THEN [fs |-> [f EXCEPT !.disable = TRUE], err |-> "nil"]
  ELSE [fs |-> f, err |-> "create"]

CallDisable ==
  LET r == Disable(fs, TRUE) IN
  /\ Ready
  /\ fs' = r.fs
  /\ ret' = R("Disable", r.err)
  /\ UNCHANGED <<logged, peer, homeErr, now, uuids, a, pc, batch, client, tracked, lastFailed>>

\* Enable: os.Remove(disable); removing a marker that is not there is an error.
Enable(f, ok) ==
  IF f.disable /\ ok THEN [fs |-> [f EXCEPT !.disable = FALSE], err |-> "nil"]
  ELSE [fs |-> f, err |-> "remove"]

CallEnable ==
  LET r == Enable(fs, TRUE) IN
  /\ Ready
  /\ fs' = r.fs
  /\ ret' = R("Enable", r.err)
  /\ UNCHANGED <<logged, peer, homeErr, now, uuids, a, pc, batch, client, tracked, lastFailed>>

----------------------------------------------------------------------------
\* Flush, one step per call it makes: Close, Events, the Segment client
\* (client.Track for each event, then client.Close), Touch, os.Remove.

\* Flush starts by closing the events file; an error ends it ("closing").
\* cf is the decision of the ConditionalFlush that called it, if one did, and
\* before the LastFlushDuration that ConditionalFlush read (-1 if none did).
BeginFlush(cf, before) ==
  LET c == Close(a) IN
  /\ a' = c.a
  /\ pc' = IF c.err = "nil" THEN "read" ELSE "idle"
  /\ ret' = [R("Flush", IF c.err = "nil" THEN "pending" ELSE "closing") EXCEPT
               !.steps = IF c.err = "nil" THEN <<"close">> ELSE <<>>,
               !.before = before, !.cf = cf]
  /\ tracked' = NoTracked
  /\ UNCHANGED <<logged, peer, homeErr, fs, now, uuids, batch, client, lastFailed>>

CallFlush ==
  /\ Ready
  /\ BeginFlush(NoCF, -1)

\* events, err := a.Events()
FlushRead ==
  \E openOK \in BOOLEAN :
    LET r == Events(fs, openOK) IN
    /\ pc = "read"
    /\ IF r.err = "nil"
         THEN /\ batch' = r.v
              /\ pc' = "send"
              /\ ret' = [ret EXCEPT !.steps = Append(@, "read"), !.cf = NoCF]
         ELSE /\ batch' = <<>>
              /\ pc' = "idle"
              /\ ret' = [ret EXCEPT !.err = "reading events", !.cf = NoCF]
    /\ UNCHANGED <<logged, peer, homeErr, fs, now, uuids, a, client, tracked, lastFailed>>

\* The second process tracks "p" events, numbered by a property "n".
PeerInput(k) ==
  [name |-> <<112>>,
   props |-> [nil |-> FALSE, kv |-> {[k |-> <<110>>, t |-> "int", v |-> Num(FALSE, k)]}]]

\* The numbers of the second process's events among evs (events or messages).
PeerNums(evs) ==
  UNION { {x.v.off : x \in evs[i].Properties.kv} :
            i \in {j \in DOMAIN evs : evs[j].Event = <<112>>} }

\* Mutant: the loop stops one event short.
MessagesButLast(evs, userID) ==
  [i \in 1..(Len(evs) - 1) |->
     [Event |-> evs[i].Event, UserId |-> userID, Properties |-> evs[i].Properties]]

\* One segment.Track per event read, carrying the tracker's userID.
Messages(evs, userID) ==
  [i \in DOMAIN evs |->
     [Event |-> evs[i].Event, UserId |-> userID, Properties |-> evs[i].Properties]]

\* Mutant: the error of client.Close() is dropped.
AfterClientCloseIgnored(ok) == "touch"

\* What follows client.Close(): Touch when it returned nil, the end of the
\* Flush ("closing client") when it returned an error.
AfterClientClose(ok) == IF ok THEN "touch" ELSE "idle"

\* client := segment.New(...); client.Track for each event; client.Close().
FlushSend ==
  \E ok \in BOOLEAN :
    /\ pc = "send"
    /\ client' = [state |-> IF ok THEN "ok" ELSE "err", msgs |-> Messages(batch, a.userID)]
    /\ pc' = AfterClientClose(ok)
    /\ ret' = IF ok THEN [ret EXCEPT !.steps = Append(@, "send")]
                    ELSE [ret EXCEPT !.err = "closing client"]
    /\ lastFailed' = IF ok \/ ~lastFailed.on THEN lastFailed
                     ELSE [lastFailed EXCEPT !.set = TRUE, !.evs = batch]
    /\ batch' = <<>>
    /\ peer' = [peer EXCEPT !.sent = @ \cup PeerNums(batch)]
    /\ UNCHANGED <<logged, homeErr, fs, now, uuids, a, tracked>>

\* a.Touch()
FlushTouch ==
  \E ok \in BOOLEAN :
    /\ pc = "touch"
    /\ fs' = Touch(fs, now, ok)
    /\ pc' = IF TouchOK(fs, ok) THEN "remove" ELSE "idle"
    /\ ret' = IF TouchOK(fs, ok) THEN [ret EXCEPT !.steps = Append(@, "touch"), !.touched = now]
                                 ELSE [ret EXCEPT !.err = "touching"]
    /\ UNCHANGED <<logged, peer, homeErr, now, uuids, a, batch, client, tracked, lastFailed>>

\* Mutant: the file is truncated instead of removed.
RemoveTruncates(f, ok) ==
  IF f.events.exists /\ ok
    THEN [fs |-> [f EXCEPT !.events = [exists |-> TRUE, lines |-> <<>>]], err |-> "nil"]
    ELSE [fs |-> f, err |-> "remove"]

\* Mutant: Flush returns nil without removing the file.
RemoveNothing(f, ok) ==
  IF f.events.exists /\ ok THEN [fs |-> f, err |-> "nil"] ELSE [fs |-> f, err |-> "remove"]

\* os.Remove(events): the file is gone, or the error is returned.
Remove(f, ok) ==
  IF f.events.exists /\ ok THEN [fs |-> [f EXCEPT !.events = NoEvents], err |-> "nil"]
  ELSE [fs |-> f, err |-> "remove"]

FlushRemove ==
  \E ok \in BOOLEAN :
    LET r == Remove(fs, ok) IN
    /\ pc = "remove"
    /\ fs' = r.fs
    /\ pc' = "idle"
    /\ ret' = IF r.err = "nil" THEN [ret EXCEPT !.err = "nil", !.steps = Append(@, "remove")]
                               ELSE [ret EXCEPT !.err = r.err]
    /\ lastFailed' = IF r.err = "nil" THEN [NoFailed EXCEPT !.on = lastFailed.on]
                     ELSE lastFailed
    /\ logged' = IF r.err = "nil" THEN <<>> ELSE logged
    /\ peer' = IF r.err # "nil" THEN peer
               ELSE [peer EXCEPT
                       !.eventsFile = IF @ = "open" THEN "unlinked" ELSE @,
                       !.lost = @ \cup (PeerNums(Events(fs, TRUE).v) \ PeerNums(client.msgs))]
    /\ UNCHANGED <<homeErr, now, uuids, a, batch, client, tracked>>

\* The thresholds ConditionalFlush is called with.
SizeThresholds == {1, 2}

DurationThresholds == {1}

\* Mutant: the size must exceed the threshold.
DecideStrict(size, age, aboveSize, aboveDuration) ==
  IF size > aboveSize THEN "flush size"
  ELSE IF age >= aboveDuration THEN "flush age"
  ELSE "close"

\* Mutant: the default case flushes too.
DecideNoClose(size, age, aboveSize, aboveDuration) ==
  IF size >= aboveSize THEN "flush size" ELSE "flush age"

\* The switch of ConditionalFlush: the size is compared first.
Decide(size, age, aboveSize, aboveDuration) ==
  IF size >= aboveSize THEN "flush size"
  ELSE IF age >= aboveDuration THEN "flush age"
  ELSE "close"

\* ConditionalFlush: the age (never an error), the size (its error is
\* returned), then Flush or Close.  Stat and Open can be made to fail on a
\* file that is there.
CallConditionalFlush ==
  \E aboveSize \in SizeThresholds, aboveDuration \in DurationThresholds,
     fault \in {"none", "stat", "open"} :
    LET age == LastFlushDuration(fs, now, fault # "stat")
        size == Size(fs, fault # "open")
        dec == Decide(size.n, age.d, aboveSize, aboveDuration)
        cf == [size |-> size.n, age |-> age.d,
               aged |-> LastFlush(fs, fault # "stat").err = "nil",
               aboveSize |-> aboveSize, aboveDuration |-> aboveDuration, dec |-> dec]
        c == Close(a)
    IN
    /\ Ready
    /\ fault = "stat" => fs.last_flush.exists
    /\ fault = "open" => fs.events.exists
    /\ IF size.err # "nil"
         THEN /\ ret' = R("ConditionalFlush", size.err)
              /\ UNCHANGED <<logged, peer, homeErr, fs, now, uuids, a, pc, batch, client, tracked, lastFailed>>
         ELSE IF dec = "close"
           THEN /\ a' = c.a
                /\ ret' = [R("ConditionalFlush", c.err) EXCEPT !.cf = cf]
                /\ UNCHANGED <<logged, peer, homeErr, fs, now, uuids, pc, batch, client, tracked, lastFailed>>
           ELSE BeginFlush(cf, age.d)

Next ==
  \/ Tick
  \/ New
  \/ CallTrack
  \/ CallClose
  \/ CallTouch
  \/ CallDisable
  \/ CallEnable
  \/ CallFlush
  \/ FlushRead
  \/ FlushSend
  \/ FlushTouch
  \/ FlushRemove
  \/ CallConditionalFlush

\* The home directory is found.
Init == InitEnv(FALSE, FALSE)

Spec == Init /\ [][Next]_vars

\* A second process on the same directory, with no lock between the two
\* (README, Notes).  It is constructed when the directory holds an id and no
\* opt-out marker, and none of its calls fails: init() reads the id and opens
\* the events file, creating it if it is absent.
PeerNew ==
  /\ fs.dir /\ fs.id.exists /\ ~fs.disable
  /\ fs' = initEvents(fs, TRUE).fs
  /\ peer' = [peer EXCEPT !.eventsFile = "open"]
  /\ UNCHANGED <<homeErr, now, uuids, a, pc, batch, client, ret, tracked, lastFailed, logged>>

\* Track in the second process, at any point of the first one's Flush.  The
\* line goes to the file its handle was opened on: the events file, or, once
\* os.Remove has unlinked that file, a file no path leads to.
PeerTrack ==
  LET in == PeerInput(peer.n + 1)
      r == Track([a EXCEPT !.eventsFile = "open", !.encErr = "nil"], fs, in)
  IN
  /\ peer.eventsFile \in {"open", "unlinked"}
  /\ peer.n < MaxPeerEvents
  /\ IF peer.eventsFile = "open"
       THEN /\ Len(fs.events.lines) < MaxEvents
            /\ fs' = r.fs
            /\ logged' = Append(logged, in)
       ELSE UNCHANGED <<fs, logged>>
  /\ peer' = [peer EXCEPT !.n = @ + 1]
  /\ UNCHANGED <<homeErr, now, uuids, a, pc, batch, client, ret, tracked, lastFailed>>

NextRace ==
  \/ New
  \/ CallTrack
  \/ CallFlush
  \/ FlushRead
  \/ FlushSend
  \/ FlushTouch
  \/ FlushRemove
  \/ PeerNew
  \/ PeerTrack

\* Two processes on one state directory.
SpecRace == Init /\ [][NextRace]_vars

\* homedir.Dir() fails: a.root stays "" and every path is relative to the
\* working directory, which exists.
InitNoHome == InitEnv(TRUE, FALSE)

SpecNoHome == InitNoHome /\ [][Next]_vars

\* The same program with the history of failed batches kept.
InitRetry == InitEnv(FALSE, TRUE)

SpecRetry == InitRetry /\ [][Next]_vars
----------------------------------------------------------------------------
\* Properties.

IsPrefix(s, t) == Len(s) <= Len(t) /\ \A i \in 1..Len(s) : s[i] = t[i]

Range(s) == {s[i] : i \in DOMAIN s}

\* The events a batch of Segment messages carries.
EventsOf(msgs) ==
  [i \in DOMAIN msgs |-> [Event |-> msgs[i].Event, Properties |-> msgs[i].Properties]]

\* A Track input as the event it was called with.
AsGiven(in) == [Event |-> in.name, Properties |-> in.props]

\* A Track input as the JSON round trip hands it back: in the name, the keys
\* and the string values each byte that is not valid UTF-8 has become U+FFFD,
\* every number is the nearest float64, and of the entries whose keys have
\* become equal the one whose key was the greatest remains.
RoundTrip(in) ==
  LET kept == {e \in in.props.kv :
                 ~\E f \in in.props.kv :
                    /\ BytesLess(e.k, f.k)
                    /\ ToValidUTF8(f.k) = ToValidUTF8(e.k)}
  IN
  [Event |-> ToValidUTF8(in.name),
   Properties |->
     [nil |-> in.props.nil,
      kv |-> {[k |-> ToValidUTF8(e.k),
               t |-> IF e.t \in {"int", "float64"} THEN "float64" ELSE e.t,
               v |-> IF e.t \in {"int", "float64"} THEN ToFloat64(e.v)
                     ELSE IF e.t = "string" THEN ToValidUTF8(e.v)
                     ELSE e.v] : e \in kept}]]

\* RoundTrip of the inputs Track is called with, computed once.
RoundTrips == {<<in, RoundTrip(in)>> : in \in TrackInputs}

AsJSON(in) == (CHOOSE p \in RoundTrips : p[1] = in)[2]

\* The last call was a Flush and it returned nil.
FlushReturnedNil == ret.op = "Flush" /\ ret.err = "nil"

C2_Original ==
  FlushReturnedNil =>
    /\ Size(fs, TRUE) = [err |-> "nil", n |-> 0]
    /\ Events(fs, TRUE) = [err |-> "nil", v |-> <<>>]

\* C2 amended: after a Flush that returned nil the events file is absent, and
\* Size() and Events() on the same tracker return an error (with 0, no events).
C2_LogAbsent ==
  FlushReturnedNil =>
    /\ ~fs.events.exists
    /\ Size(fs, TRUE) = [err |-> "reading events", n |-> 0]
    /\ Events(fs, TRUE) = [err |-> "opening", v |-> <<>>]

C2_Witness == FlushReturnedNil /\ Len(client.msgs) = 2

\* C3 as stated: the Flush that is attempted after one that failed at
\* client.Close gets as far as submitting the events; it does not fail at its
\* own Close.
C3_Original ==
  [][ (/\ ret.op = "Flush"
       /\ ret.err = "closing client"
       /\ ret'.op = "Flush"
       /\ CallFlush)
      => ret'.err # "closing" ]_vars

\* C3 amended: when client.Close fails the events file is left as it was,
\* holding the events that were read, and it keeps them first until a Flush
\* removes it (checked at every step that changes the file or the failed
\* batch); a Flush retried on the same tracker fails at Close and submits
\* nothing; and what any later Flush submits (one of a tracker constructed
\* afterwards) is exactly those events followed by the events appended since,
\* in order.
C3_RetryKeepsBatch ==
  [][ /\ (pc = "send" /\ ret'.err = "closing client") =>
           /\ lastFailed'.set
           /\ fs' = fs
           /\ Events(fs', TRUE) = [err |-> "nil", v |-> lastFailed'.evs]
      /\ (lastFailed'.set /\ (lastFailed' # lastFailed \/ fs'.events # fs.events)) =>
           /\ fs'.events.exists
           /\ IsPrefix(lastFailed'.evs, Events(fs', TRUE).v)
      /\ (/\ ret.op = "Flush"
          /\ ret.err = "closing client"
          /\ ret'.op = "Flush"
          /\ CallFlush) =>
           /\ ret'.err = "closing"
           /\ pc' = "idle"
           /\ client' = client
           /\ fs' = fs
      /\ (pc = "send" /\ lastFailed.set /\ FlushSend) =>
           LET n == Len(lastFailed.evs) IN
           /\ Len(logged) >= n
           /\ EventsOf(client'.msgs) =
                lastFailed.evs \o [i \in 1..(Len(logged) - n) |-> AsJSON(logged[n + i])]
    ]_vars

C3_Witness ==
  /\ lastFailed.set
  /\ Len(lastFailed.evs) = 1
  /\ client.state = "ok"
  /\ Len(client.msgs) = 2

\* C4: a Flush touches the marker only after client.Close returned nil, it
\* removes the events file only after that touch, what it removes is the batch
\* that was sent, and no other step takes an event out of the file.
C4_FlushOrder ==
  [][ /\ ("touch" \in Range(ret'.steps) /\ "touch" \notin Range(ret.steps)) =>
           /\ client.state = "ok"
           /\ "send" \in Range(ret.steps)
      /\ (fs.events.exists /\ ~fs'.events.exists) =>
           /\ ret.op = "Flush"
           /\ "touch" \in Range(ret.steps)
           /\ client.state = "ok"
           /\ EventsOf(client.msgs) = Events(fs, TRUE).v
      /\ (fs.events.exists /\ fs'.events.exists) =>
           IsPrefix(fs.events.lines, fs'.events.lines) ]_vars

C4_Witness ==
  /\ FlushReturnedNil
  /\ ret.steps = <<"close", "read", "send", "touch", "remove">>
  /\ Len(client.msgs) = 2
  /\ ~fs.events.exists

\* C5: ConditionalFlush calls Flush when the number of buffered events is at
\* least aboveSize, and when it is less and the time since the marker was
\* touched is at least aboveDuration.
C5_FlushWhenAbove ==
  ret.cf.dec # "none" =>
    /\ ret.cf.size = Len(fs.events.lines)
    /\ ret.cf.aged => ret.cf.age <= now - fs.last_flush.mtime
    /\ ret.cf.size >= ret.cf.aboveSize => ret.op = "Flush"
    /\ (ret.cf.size < ret.cf.aboveSize /\ ret.cf.aged /\ ret.cf.age >= ret.cf.aboveDuration)
         => ret.op = "Flush"

C5_Witness ==
  /\ ret.op = "Flush"
  /\ ret.err = "pending"
  /\ ret.cf.dec # "none"
  /\ ret.cf.size < ret.cf.aboveSize
  /\ ret.cf.aged
  /\ ret.cf.age >= ret.cf.aboveDuration

\* C6: with the size below aboveSize and the age below aboveDuration,
\* ConditionalFlush leaves the file handle closed, starts no Flush, sends
\* nothing and changes nothing in the state directory.
C6_CloseOnly ==
  [][ (/\ ret'.cf.dec # "none"
       /\ ret'.cf.size < ret'.cf.aboveSize
       /\ ret'.cf.age < ret'.cf.aboveDuration) =>
        /\ ret'.op = "ConditionalFlush"
        /\ pc' = "idle"
        /\ a'.eventsFile # "open"
        /\ fs' = fs
        /\ client' = client ]_vars

C6_Witness ==
  /\ ret.op = "ConditionalFlush"
  /\ ret.err = "nil"
  /\ ret.cf.size < ret.cf.aboveSize
  /\ ret.cf.age < ret.cf.aboveDuration
  /\ a.eventsFile = "closed"
  /\ Len(fs.events.lines) = 1
  /\ fs.last_flush.exists

\* C7 as stated: while the opt-out marker is present no Track call changes
\* the events file and no Flush sends a message.
C7_Original ==
  [][ (fs.disable /\ fs'.disable) =>
        /\ ret'.op = "Track" => fs'.events = fs.events
        /\ pc = "send" => client'.msgs = <<>> ]_vars

\* C7 amended: on a tracker built while the opt-out marker was present, no
\* call changes the events file, starts a Flush or sends a message.
C7_OptedOutInert ==
  [][ (a.alive /\ a.optedOut /\ a' = a) =>
        /\ fs'.events = fs.events
        /\ client' = client
        /\ pc' = "idle"
        /\ ret'.op = "Flush" => ret'.err = "closing" ]_vars

C7_Witness ==
  /\ a.alive
  /\ a.optedOut
  /\ fs.disable
  /\ ret.op = "Flush"
  /\ ret.err = "closing"
  /\ Len(fs.events.lines) = 1

\* C8 as stated: once the id file exists no step rewrites it.
C8_Claim == [][fs.id.exists => fs'.id = fs.id]_vars

\* C9 as stated: after a Flush that returned nil, LastFlushDuration() is less
\* than the duration read before that Flush began.
C9_Original ==
  (FlushReturnedNil /\ ret.before >= 0) =>
    LastFlushDuration(fs, now, TRUE).d < ret.before

\* C9 amended: after a Flush that returned nil, the marker's time is the time
\* of that Flush's Touch, and LastFlushDuration() is the time since that Touch.
C9_MarkerIsFlushTime ==
  FlushReturnedNil =>
    /\ fs.last_flush = [exists |-> TRUE, mtime |-> ret.touched]
    /\ LastFlush(fs, TRUE) = [err |-> "nil", t |-> ret.touched]
    /\ LastFlushDuration(fs, now, TRUE) = [err |-> "nil", d |-> now - ret.touched]

C9_Witness ==
  /\ FlushReturnedNil
  /\ ret.before = 0
  /\ ret.touched = 1
  /\ LastFlushDuration(fs, now, TRUE).d = 0

\* C10 as stated: when the home directory is not found the tracker is inert
\* and no id, events or marker file is created.
C10_Claim ==
  (homeErr /\ a.alive) =>
    /\ a.eventsFile = "nil"
    /\ ~fs.id.exists
    /\ ~fs.events.exists
    /\ ~fs.last_flush.exists

\* C11: Close() returns, without a panic, on a tracker whose events file was
\* never opened (ErrInvalid) and on one already closed (ErrClosed); it leaves
\* the handle closed or nil, and the events file, the id, the marker and the
\* rest of the directory as they were.
C11_CloseNeverFaults ==
  [][ (ret'.op = "Close" /\ CallClose) =>
        /\ ret'.err \in {"nil", "invalid argument", "file already closed"}
        /\ ret'.err = "nil" <=> a.eventsFile = "open"
        /\ a.eventsFile # "open" => a' = a
        /\ a'.eventsFile # "open"
        /\ a'.userID = a.userID
        /\ fs' = fs
        /\ client' = client
        /\ pc' = "idle" ]_vars

C11_Witness ==
  /\ ret.op = "Close"
  /\ ret.err = "invalid argument"
  /\ a.eventsFile = "nil"
  /\ Len(fs.events.lines) = 1
  /\ fs.id.exists
  /\ fs.last_flush.exists

\* C12: with one process at a time, whatever constructions, restarts, Track
\* calls, Closes and failed Flushes there were, the events file read front to
\* back is the events of the Track calls that wrote a line since the last Flush
\* that removed the file (or since the start), in call order, as JSON decodes
\* them; and when the file is absent there is no such call.
C12_LogIsTrackedSinceFlush ==
  /\ fs.events.exists =>
       Events(fs, TRUE) = [err |-> "nil", v |-> [i \in DOMAIN logged |-> AsJSON(logged[i])]]
  /\ ~fs.events.exists => logged = <<>>

C12_Witness ==
  /\ ret.op = "Track"
  /\ ret.err = "nil"
  /\ ~tracked.valid
  /\ lastFailed.set
  /\ Len(lastFailed.evs) = 1
  /\ Len(logged) = 2
  /\ logged[1].name = <<98, 255>>
  /\ logged[2].name = <<97>>

\* C13 as stated: when the marker file is absent and the size is below
\* aboveSize, ConditionalFlush calls Flush.
C13_Claim ==
  (ret.cf.dec # "none" /\ ~fs.last_flush.exists /\ ret.cf.size < ret.cf.aboveSize) =>
    ret.op = "Flush"

\* C14: the opt-out marker is read by init() only.  Disable() and Enable()
\* leave the tracker and the events file as they are; Track, unless it returns
\* json's error for props it cannot encode and changes nothing, appends exactly
\* when the tracker's file is open, whatever the marker says now, and changes
\* nothing of the tracker but the error its encoder keeps once the file is
\* closed; and a tracker constructed with the marker present has no events
\* file.
C14_GateReadAtConstruction ==
  [][ /\ (ret'.op \in {"Disable", "Enable"} /\ (CallDisable \/ CallEnable)) =>
           (a' = a /\ fs'.events = fs.events)
      /\ (ret'.op = "Track" /\ CallTrack) =>
           /\ ret'.err # "unsupported type" =>
                /\ fs'.events # fs.events <=> a.eventsFile = "open"
                /\ a.eventsFile = "open" =>
                     Len(fs'.events.lines) = Len(fs.events.lines) + 1
           /\ ret'.err = "unsupported type" => (fs' = fs /\ a' = a)
           /\ a' = [a EXCEPT !.encErr = a'.encErr]
           /\ a'.encErr # a.encErr => a.eventsFile = "closed"
      /\ a'.optedOut # a.optedOut => ret'.op = "New"
      /\ (ret'.op = "New" /\ fs.disable /\ New) =>
           (a'.optedOut /\ a'.eventsFile = "nil" /\ fs' = fs) ]_vars

C14_Witness ==
  /\ fs.disable
  /\ ~a.optedOut
  /\ a.eventsFile = "open"
  /\ ret.op = "Track"
  /\ ret.err = "nil"
  /\ Len(fs.events.lines) = 1

\* C15 as stated: when ConditionalFlush cannot compute the age (LastFlush
\* fails: the marker is absent or cannot be read) or the size (Events fails),
\* it returns an error and changes nothing: no Close, no Flush, no message.
C15_Claim ==
  [][ (/\ \/ ~fs.last_flush.exists
          \/ ~fs.events.exists
          \/ (ret'.cf.dec # "none" /\ ~ret'.cf.aged)
       /\ CallConditionalFlush) =>
        /\ ret'.op = "ConditionalFlush"
        /\ ret'.err # "nil"
        /\ a' = a
        /\ fs' = fs
        /\ pc' = "idle"
        /\ client' = client ]_vars

\* C16 as stated: when Flush or ConditionalFlush has returned, with or without
\* an error, the tracker's events file is not open.
C16_Claim ==
  (ret.op \in {"Flush", "ConditionalFlush"} /\ pc = "idle") => a.eventsFile # "open"

\* C17: the step of Flush that submits builds one client, calls client.Track
\* once per line of the events file, in file order, with the line's event name
\* and decoded properties and the tracker's userID, and calls client.Close
\* once; the events file is as it was.
C17_OneRecordPerEvent ==
  [][ (pc = "send" /\ FlushSend) =>
        /\ client = NoClient
        /\ client'.state \in {"ok", "err"}
        /\ fs' = fs
        /\ a' = a
        /\ Len(client'.msgs) = Len(fs.events.lines)
        /\ \A i \in DOMAIN fs.events.lines :
             client'.msgs[i] = [Event |-> DecodeEvent(fs.events.lines[i]).Event,
                                UserId |-> a.userID,
                                Properties |-> DecodeEvent(fs.events.lines[i]).Properties] ]_vars

C17_Witness ==
  /\ pc = "touch"
  /\ client.state = "ok"
  /\ Len(client.msgs) = 2
  /\ client.msgs[1] = [Event |-> <<97>>, UserId |-> 1, Properties |-> NilProps]
  /\ client.msgs[2].Event = <<98>> \o ReplacementChar
  /\ client.msgs[2].UserId = 1
  /\ client.msgs[2].Properties.kv =
       {[k |-> <<120>> \o ReplacementChar, t |-> "float64", v |-> Num(TRUE, 0)],
        [k |-> <<119>>, t |-> "string", v |-> <<101>> \o ReplacementChar]}
  /\ fs.id = [exists |-> TRUE, content |-> 1]

\* C18 as stated: after a Flush that returned nil, with the id file in place,
\* a construction that finds the directory enabled and opens the events file
\* finds Size() = 0 without error, has the identifier the tracker had before,
\* leaves the id file as it was, and LastFlush() is still the time of that Flush.
C18_Claim ==
  [][ (/\ FlushReturnedNil
       /\ fs.id.exists
       /\ ~fs.disable
       /\ ret'.op = "New"
       /\ a'.eventsFile = "open"
       /\ New) =>
        /\ Size(fs', TRUE) = [err |-> "nil", n |-> 0]
        /\ a'.userID = a.userID
        /\ fs'.id = fs.id
        /\ LastFlush(fs', TRUE) = [err |-> "nil", t |-> ret.touched] ]_vars

\* C19: with two processes, an event of the second process that is in the
\* events file when the first one's Flush removes it, and was not in the batch
\* that Flush had read, is off the disk and is in no batch ever submitted,
\* before or after.
C19_AppendAfterReadIsLost ==
  \A k \in peer.lost :
    /\ k \in 1..peer.n
    /\ k \notin peer.sent
    /\ k \notin PeerNums(Events(fs, TRUE).v)
    /\ k \notin PeerNums(client.msgs)
    /\ k \notin PeerNums(batch)

C19_Witness ==
  /\ FlushReturnedNil
  /\ peer.lost = {2}
  /\ peer.sent = {1}
  /\ PeerNums(client.msgs) = {1}
  /\ ~fs.events.exists
  /\ uuids = 1
  /\ a.userID = 1
  /\ fs.id = [exists |-> TRUE, content |-> 1]

\* C20 as stated: on a tracker whose events file was opened, the call that
\* follows a Close, a Flush or a ConditionalFlush that has returned, if it is
\* a Track, a Flush or a Close, returns an error and changes neither the
\* directory nor the client, and starts no Flush.
C20_Claim ==
  [][ (/\ ret.op \in {"Close", "Flush", "ConditionalFlush"}
       /\ pc = "idle"
       /\ a.eventsFile # "nil"
       /\ (CallTrack \/ CallFlush \/ CallClose)) =>
        /\ ret'.err \notin {"nil", "pending"}
        /\ fs' = fs
        /\ client' = client
        /\ pc' = "idle" ]_vars
====
